------------------------------ MODULE Spec2Model ------------------------------
(***************************************************************************)
(* Quantum Code Quiz: the streaming record parser                          *)
(* generateQuizQuestionsStream and its consumer, startQuiz in App, and the *)
(* quiz as a whole: App with its views and handlers, and the QuizCard.     *)
(*                                                                         *)
(* Text is modelled as a sequence of one-character strings, so that        *)
(* includes / indexOf / substring / trim / JSON.parse work on characters   *)
(* exactly as the JavaScript string operations do.  Offsets are 0-based    *)
(* as in JavaScript; sequences are 1-based as in TLA+.                     *)
(***************************************************************************)
EXTENDS Integers, Sequences, FiniteSets, TLC

(***************************************************************************)
(* Bounds of the model.                                                    *)
(***************************************************************************)
\* Largest number of segments in a response of the upstream source.
MaxSegments == 3
\* Responses of at most this many segments are also delivered one character
\* per chunk.
MaxFineSegments == 2

\* the segments of a response streamed to the quiz as a whole
MaxQuizSegments == 2

\* the earlier generators that may still be running when startQuiz is called
MaxEarlier == 1

\* the chunks without a text part that a response may contain
MaxTextless == 1

(***************************************************************************)
(* Program constants.                                                      *)
(***************************************************************************)
\* const DELIMITER = '---QML_QUIZ_DELIMITER---'
DELIMITER ==
    <<"-","-","-","Q","M","L","_","Q","U","I","Z","_","D","E","L","I","M","I","T","E","R",
      "-","-","-">>

\* errorMessage.includes("API key not valid")
ApiKeyNotValid ==
    <<"A","P","I"," ","k","e","y"," ","n","o","t"," ","v","a","l","i","d">>

\* setError("Your API key appears to be invalid. ...")
MsgReselect ==
    <<"Y","o","u","r"," ","A","P","I"," ","k","e","y"," ","a","p","p","e","a","r","s"," ",
      "t","o"," ","b","e"," ","i","n","v","a","l","i","d","."," ","P","l","e","a","s","e",
      " ","s","e","l","e","c","t"," ","a"," ","n","e","w"," ","o","n","e"," ","t","o"," ",
      "c","o","n","t","i","n","u","e",".">>

\* 'An unknown error occurred.'
MsgUnknown ==
    <<"A","n"," ","u","n","k","n","o","w","n"," ","e","r","r","o","r"," ","o","c","c","u",
      "r","r","e","d",".">>

\* useState<string | null>(null): the null error
NullError == <<"<null>">>

(***************************************************************************)
(* JavaScript string operations.                                           *)
(***************************************************************************)
IsWs(c) == c \in {" ", "\n", "\t", "\r"}

RECURSIVE SkipWs(_, _)
\* the first index >= i of s that holds no whitespace (Len(s)+1 if none)
SkipWs(s, i) ==
    IF i <= Len(s) /\ IsWs(s[i]) THEN SkipWs(s, i + 1) ELSE i

RECURSIVE SkipWsBack(_, _)
\* the last index <= i of s that holds no whitespace (0 if none)
SkipWsBack(s, i) ==
    IF i >= 1 /\ IsWs(s[i]) THEN SkipWsBack(s, i - 1) ELSE i

\* String.prototype.trim
Trim(s) == SubSeq(s, SkipWs(s, 1), SkipWsBack(s, Len(s)))

\* whether p occurs in s at 0-based offset i
MatchesAt(s, p, i) ==
    /\ i + Len(p) <= Len(s)
    /\ \A k \in 1..Len(p) : s[i + k] = p[k]

\* String.prototype.indexOf: 0-based offset of the first occurrence, or -1
IndexOf(s, p) ==
    LET hits == {i \in 0..(Len(s) - Len(p)) : MatchesAt(s, p, i)}
    IN  IF hits = {} THEN -1
        ELSE CHOOSE i \in hits : \A j \in hits : i <= j

\* String.prototype.includes
Includes(s, p) == IndexOf(s, p) # -1

\* String.prototype.substring(a, b) and substring(a), 0 <= a <= b <= length
Substring(s, a, b) == SubSeq(s, a + 1, b)
SubstringFrom(s, a) == SubSeq(s, a + 1, Len(s))

(***************************************************************************)
(* JSON.parse.  A recursive-descent recogniser of the JSON grammar over    *)
(* the characters of the modelled texts: objects, arrays, strings without  *)
(* escape sequences, integers and the three literals.  Every ...End        *)
(* operator returns the index just after the item that starts at index i,  *)
(* or 0 when no such item starts there.                                    *)
(***************************************************************************)
Digits == {"0", "1", "2", "3", "4", "5", "6", "7", "8", "9"}

LitTrue == <<"t", "r", "u", "e">>
LitFalse == <<"f", "a", "l", "s", "e">>
LitNull == <<"n", "u", "l", "l">>

RECURSIVE StringClose(_, _)
StringClose(s, j) ==
    IF j > Len(s) THEN 0
    ELSE IF s[j] = "\"" THEN j + 1
    ELSE IF s[j] \in {"\n", "\t", "\r", "\\"} THEN 0
    ELSE StringClose(s, j + 1)

StringEnd(s, i) ==
    IF i <= Len(s) /\ s[i] = "\"" THEN StringClose(s, i + 1) ELSE 0

RECURSIVE DigitsEnd(_, _)
DigitsEnd(s, i) ==
    IF i <= Len(s) /\ s[i] \in Digits THEN DigitsEnd(s, i + 1) ELSE i

NumberEnd(s, i) ==
    LET j == IF i <= Len(s) /\ s[i] = "-" THEN i + 1 ELSE i
    IN  IF j > Len(s) \/ s[j] \notin Digits THEN 0
        ELSE IF s[j] = "0" THEN j + 1
        ELSE DigitsEnd(s, j + 1)

LiteralEnd(s, i, lit) ==
    IF MatchesAt(s, lit, i - 1) THEN i + Len(lit) ELSE 0

RECURSIVE ValueEnd(_, _)
RECURSIVE ElementsEnd(_, _)
RECURSIVE MembersEnd(_, _)

ValueEnd(s, i) ==
    IF i > Len(s) THEN 0
    ELSE CASE s[i] = "{" ->
                LET j == SkipWs(s, i + 1)
                IN  IF j <= Len(s) /\ s[j] = "}" THEN j + 1 ELSE MembersEnd(s, j)
           [] s[i] = "[" ->
                LET j == SkipWs(s, i + 1)
                IN  IF j <= Len(s) /\ s[j] = "]" THEN j + 1 ELSE ElementsEnd(s, j)
           [] s[i] = "\"" -> StringEnd(s, i)
           [] s[i] = "t" -> LiteralEnd(s, i, LitTrue)
           [] s[i] = "f" -> LiteralEnd(s, i, LitFalse)
           [] s[i] = "n" -> LiteralEnd(s, i, LitNull)
           [] s[i] \in Digits \cup {"-"} -> NumberEnd(s, i)
           [] OTHER -> 0

\* i is the index of the first character of an array element
ElementsEnd(s, i) ==
    LET e == ValueEnd(s, i)
        j == SkipWs(s, e)
    IN  IF e = 0 \/ j > Len(s) THEN 0
        ELSE IF s[j] = "]" THEN j + 1
        ELSE IF s[j] = "," THEN ElementsEnd(s, SkipWs(s, j + 1))
        ELSE 0

\* i is the index of the first character of an object member (its key)
MembersEnd(s, i) ==
    LET k == StringEnd(s, i)
        c == SkipWs(s, k)
    IN  IF k = 0 \/ c > Len(s) THEN 0
        ELSE IF s[c] # ":" THEN 0
        ELSE LET e == ValueEnd(s, SkipWs(s, c + 1))
                 j == SkipWs(s, e)
             IN  IF e = 0 \/ j > Len(s) THEN 0
                 ELSE IF s[j] = "}" THEN j + 1
                 ELSE IF s[j] = "," THEN MembersEnd(s, SkipWs(s, j + 1))
                 ELSE 0

\* typeof / Array.isArray of the value that starts at index i
KindAt(s, i) ==
    CASE s[i] = "{" -> "object"
      [] s[i] = "[" -> "array"
      [] s[i] = "\"" -> "string"
      [] s[i] \in {"t", "f"} -> "boolean"
      [] s[i] = "n" -> "null"
      [] OTHER -> "number"

RECURSIVE ElementKinds(_, _)
\* the kinds of the elements of a well-formed array, i at its first element
ElementKinds(s, i) ==
    IF s[i] = "]" THEN << >>
    ELSE LET j == SkipWs(s, ValueEnd(s, i))
         IN  <<KindAt(s, i)>> \o
             (IF s[j] = "," THEN ElementKinds(s, SkipWs(s, j + 1)) ELSE << >>)

RECURSIVE MembersOf(_, _)
\* the members of a well-formed object, i at its first key (or at "}")
MembersOf(s, i) ==
    IF s[i] = "}" THEN << >>
    ELSE LET k == StringEnd(s, i)
             v == SkipWs(s, SkipWs(s, k) + 1)
             j == SkipWs(s, ValueEnd(s, v))
             m == [key   |-> SubSeq(s, i + 1, k - 2),
                   kind  |-> KindAt(s, v),
                   elems |-> IF s[v] = "[" THEN ElementKinds(s, SkipWs(s, v + 1))
                             ELSE << >>]
         IN  <<m>> \o
             (IF s[j] = "," THEN MembersOf(s, SkipWs(s, j + 1)) ELSE << >>)

\* the character at index i of s is whitespace outside every string literal
Insignificant(s, i) ==
    /\ IsWs(s[i])
    /\ Cardinality({k \in 1..(i - 1) : s[k] = "\""}) % 2 = 0

RECURSIVE Compact(_, _, _)
\* s[lo..hi] without the whitespace outside string literals
Compact(s, lo, hi) ==
    IF lo > hi THEN << >>
    ELSE IF lo = hi THEN (IF Insignificant(s, lo) THEN << >> ELSE <<s[lo]>>)
    ELSE Compact(s, lo, (lo + hi) \div 2) \o Compact(s, ((lo + hi) \div 2) + 1, hi)

\* the outcome of a JSON.parse that throws SyntaxError
SyntaxError == [threw |-> TRUE, value |-> [kind |-> "none", json |-> << >>, members |-> << >>]]

\* JSON.parse(text): the parsed value is its kind, its text without
\* insignificant whitespace, and for an object its members in order
JSONParse(text) ==
    LET i == SkipWs(text, 1)
        e == ValueEnd(text, i)
    IN  IF e = 0 THEN SyntaxError
        ELSE IF SkipWs(text, e) # Len(text) + 1 THEN SyntaxError
        ELSE [threw |-> FALSE,
              value |-> [kind    |-> KindAt(text, i),
                         json    |-> Compact(text, 1, Len(text)),
                         members |-> IF text[i] = "{"
                                     THEN MembersOf(text, SkipWs(text, i + 1))
                                     ELSE << >>]]

(***************************************************************************)
(* interface QuizQuestion                                                  *)
(***************************************************************************)
KeyQuestion ==
    <<"q","u","e","s","t","i","o","n">>
KeyCodeSnippet ==
    <<"c","o","d","e","_","s","n","i","p","p","e","t">>
KeyOptions ==
    <<"o","p","t","i","o","n","s">>
KeyCorrectAnswer ==
    <<"c","o","r","r","e","c","t","A","n","s","w","e","r">>
KeyExplanation ==
    <<"e","x","p","l","a","n","a","t","i","o","n">>

\* v has a property key (JavaScript keeps the last of duplicate keys)
HasKey(v, key) == \E n \in 1..Len(v.members) : v.members[n].key = key

Member(v, key) ==
    v.members[CHOOSE n \in 1..Len(v.members) :
                /\ v.members[n].key = key
                /\ \A m \in (n + 1)..Len(v.members) : v.members[m].key # key]

IsStringMember(v, key) == HasKey(v, key) /\ Member(v, key).kind = "string"

\* the value has the shape the interface QuizQuestion declares
IsQuizQuestion(v) ==
    /\ v.kind = "object"
    /\ IsStringMember(v, KeyQuestion)
    /\ (HasKey(v, KeyCodeSnippet) => IsStringMember(v, KeyCodeSnippet))
    /\ HasKey(v, KeyOptions)
    /\ Member(v, KeyOptions).kind = "array"
    /\ \A n \in 1..Len(Member(v, KeyOptions).elems) :
           Member(v, KeyOptions).elems[n] = "string"
    /\ IsStringMember(v, KeyCorrectAnswer)
    /\ IsStringMember(v, KeyExplanation)

(***************************************************************************)
(* The upstream source: the responses it may stream.                       *)
(***************************************************************************)
\* a complete record
RecordA ==
    <<"{","\"","q","u","e","s","t","i","o","n","\"",":","\"","Q","1","\"",",","\"","o","p",
      "t","i","o","n","s","\"",":","[","\"","A","\"",",","\"","B","\"","]",",","\"","c","o",
      "r","r","e","c","t","A","n","s","w","e","r","\"",":","\"","A","\"",",","\"","e","x",
      "p","l","a","n","a","t","i","o","n","\"",":","\"","E","\"","}">>

\* a complete record with whitespace around and inside it
RecordB ==
    <<"\n","{","\"","q","u","e","s","t","i","o","n","\"",":","\"","Q","2","\"",","," ","\"",
      "o","p","t","i","o","n","s","\"",":","[","\"","C","\"","]",",","\"","c","o","r","r",
      "e","c","t","A","n","s","w","e","r","\"",":","\"","C","\"",",","\"","e","x","p","l",
      "a","n","a","t","i","o","n","\"",":","\"","F","\"","}","\n">>

\* malformed text: a record cut short
Truncated ==
    <<"{","\"","q","u","e","s","t","i","o","n","\"",":","\"","Q","3","\"",",">>

\* well-formed JSON without the required fields
Partial ==
    <<"{","\"","q","u","e","s","t","i","o","n","\"",":","\"","Q","4","\"","}">>

\* whitespace only
Blank ==
    <<" ","\n">>

\* the delimiter without its first three characters: right after a
\* delimiter it forms a second, overlapping occurrence of the delimiter
DelimiterTail ==
    <<"Q","M","L","_","Q","U","I","Z","_","D","E","L","I","M","I","T","E","R","-","-","-">>

Contents == {<< >>, Blank, RecordA, RecordB, Truncated, Partial, DelimiterTail}

\* messages of the errors the source may fail with
MsgInvalidKey ==
    <<"A","P","I"," ","k","e","y"," ","n","o","t"," ","v","a","l","i","d","."," ","P","l",
      "e","a","s","e"," ","p","a","s","s"," ","a"," ","v","a","l","i","d"," ","A","P","I",
      " ","k","e","y",".">>
MsgTransport ==
    <<"f","e","t","c","h"," ","f","a","i","l","e","d">>

\* what the source may throw: an Error with a message, or a non-Error value
Failures ==
    {[isError |-> TRUE, message |-> MsgInvalidKey],
     [isError |-> TRUE, message |-> MsgTransport],
     [isError |-> FALSE, message |-> << >>]}


\* the lists of at most n segment contents
RECURSIVE SegmentLists(_)
SegmentLists(n) ==
    IF n = 0 THEN {<< >>}
    ELSE SegmentLists(n - 1) \cup
         {<<c>> \o cs : c \in Contents,
                        cs \in {l \in SegmentLists(n - 1) : Len(l) = n - 1}}

RECURSIVE Response(_)
\* the text of a response: the segments cs separated by the delimiter (a
\* response that ends with a delimiter has an empty last segment)
Response(cs) ==
    IF cs = << >> THEN << >>
    ELSE IF Len(cs) = 1 THEN cs[1]
    ELSE cs[1] \o DELIMITER \o Response(Tail(cs))

RECURSIVE CutPoints(_, _)
\* the offsets at which the source may end a chunk of Response(cs), the
\* first segment of cs starting at offset at: the ends and the middle of
\* every segment and of every delimiter
CutPoints(cs, at) ==
    IF cs = << >> THEN {at}
    ELSE LET e == at + Len(cs[1])
             d == e + Len(DELIMITER)
         IN  {at, at + (Len(cs[1]) \div 2), e}
             \cup (IF Len(cs) > 1
                   THEN {e + (Len(DELIMITER) \div 2)} \cup CutPoints(Tail(cs), d)
                   ELSE {})

(***************************************************************************)
(* State.                                                                  *)
(***************************************************************************)
VARIABLES
    \* App (useState)
    quizState, questions, currentQuestionIndex, score, error, isKeySet,
    isCheckingKey,
    \* the running generateQuizQuestionsStream: where it is suspended, its
    \* local buffer, and what it threw
    pc, buffer, thrown,
    \* the upstream source: the text it will deliver in all, how much of it
    \* it has delivered, where it may end a chunk, and whether it delivers
    \* at most one character per chunk
    stream, pos, cuts, fine,
    \* history of the run: the records yielded, and the JSON.parse calls
    \* made (each with the offsets in stream of the segment it was given)
    emitted, attempts,
    \* the mounted QuizCard (useState)
    selectedOption, isAnswered,
    \* the generators of earlier startQuiz calls that were still running
    \* when startQuiz was called again, each with its source
    earlier

appVars == <<quizState, questions, currentQuestionIndex, score, error, isKeySet,
             isCheckingKey>>
genVars == <<pc, buffer, thrown>>
srcVars == <<stream, pos, cuts, fine>>
histVars == <<emitted, attempts>>
cardVars == <<selectedOption, isAnswered>>
vars == <<appVars, genVars, srcVars, histVars, cardVars, earlier>>

NoFailure == [isError |-> FALSE, message |-> <<"<none>">>]

\* useState<string | null>(null): no option selected
NullOption == "<null>"

Init ==
    /\ quizState = "idle"
    /\ questions = << >>
    /\ currentQuestionIndex = 0
    /\ score = 0
    /\ error = NullError
    /\ isKeySet = FALSE
    /\ isCheckingKey = TRUE
    /\ pc = "none"
    /\ buffer = << >>
    /\ thrown = NoFailure
    /\ stream = << >>
    /\ pos = 0
    /\ cuts = {0}
    /\ fine = FALSE
    /\ emitted = << >>
    /\ attempts = << >>
    /\ selectedOption = NullOption
    /\ isAnswered = FALSE
    /\ earlier = << >>

(***************************************************************************)
(* App: the API key.                                                       *)
(***************************************************************************)
\* no generator is in the middle of a job: every generator is suspended
\* at an await of its source or has ended.  Clicks and timers are tasks,
\* and a task runs only when the jobs of the tasks before it have run.
Quiescent == pc \in {"none", "open", "pull", "done", "failed"}

\* useEffect(checkApiKey): hasSelectedApiKey resolves to hasKey, or rejects
\* and the key counts as not set
CheckApiKey ==
    /\ isCheckingKey
    /\ \E hasKey \in BOOLEAN : isKeySet' = hasKey
    /\ isCheckingKey' = FALSE
    /\ UNCHANGED <<quizState, questions, currentQuestionIndex, score, error,
                   genVars, srcVars, histVars, cardVars, earlier>>

\* ApiKeySetup.handleSetupClick, then onKeySet
SelectKey ==
    /\ ~isCheckingKey
    /\ ~isKeySet
    /\ Quiescent
    /\ isKeySet' = TRUE
    /\ error' = NullError
    /\ UNCHANGED <<quizState, questions, currentQuestionIndex, score,
                   isCheckingKey, genVars, srcVars, histVars, cardVars, earlier>>

(***************************************************************************)
(* startQuiz, up to the first suspension of the generator it creates: the  *)
(* generator awaits generateContentStream.                                 *)
(***************************************************************************)
\* the running generator and its source
ThisRun ==
    [pc |-> pc, buffer |-> buffer, stream |-> stream, pos |-> pos,
     cuts |-> cuts, fine |-> fine, thrown |-> thrown]

InProgress(run) == run.pc \in {"open", "pull"}

\* the generators that go on running when startQuiz is called: nothing
\* cancels them
StillRunning ==
    earlier \o (IF InProgress(ThisRun) THEN <<ThisRun>> ELSE << >>)

\* the body of startQuiz
BeginRun ==
    /\ Len(StillRunning) <= MaxEarlier
    /\ earlier' = StillRunning
    /\ quizState' = "loading"
    /\ questions' = << >>
    /\ currentQuestionIndex' = 0
    /\ score' = 0
    /\ error' = NullError
    /\ pc' = "open"
    /\ buffer' = << >>
    /\ thrown' = NoFailure
    /\ stream' = << >>
    /\ pos' = 0
    /\ cuts' = {0}
    /\ fine' = FALSE
    /\ emitted' = << >>
    /\ attempts' = << >>
    /\ UNCHANGED <<isKeySet, isCheckingKey, cardVars>>

\* the Start Quiz button of the idle view
StartQuiz ==
    /\ ~isCheckingKey
    /\ isKeySet
    /\ quizState = "idle"
    /\ Quiescent
    /\ BeginRun

(***************************************************************************)
(* generateQuizQuestionsStream.                                            *)
(***************************************************************************)
\* await ai.models.generateContentStream(...) resolves; let buffer = ''.
\* The source has chosen the response it will stream and how it chunks it.
OpenStream ==
    /\ pc = "open"
    /\ pc' = "pull"
    /\ buffer' = << >>
    /\ \E cs \in SegmentLists(MaxSegments), f \in BOOLEAN :
          /\ f => Len(cs) <= MaxFineSegments
          /\ stream' = Response(cs)
          /\ cuts' = IF f THEN 0..Len(Response(cs)) ELSE CutPoints(cs, 0)
          /\ fine' = f
    /\ UNCHANGED <<appVars, thrown, pos, histVars, cardVars, earlier>>

\* for await (const chunk of stream): buffer += chunk.text
ReceiveChunk ==
    /\ pc = "pull"
    /\ \E q \in cuts :
          /\ pos <= q
          /\ fine => q <= pos + 1
          /\ buffer' = buffer \o SubSeq(stream, pos + 1, q)
          /\ pos' = q
    /\ pc' = "scan"
    /\ UNCHANGED <<appVars, thrown, stream, cuts, fine, histVars, cardVars,
                   earlier>>

\* String.prototype.lastIndexOf
LastIndexOf(s, p) ==
    LET hits == {i \in 0..(Len(s) - Len(p)) : MatchesAt(s, p, i)}
    IN  IF hits = {} THEN -1
        ELSE CHOOSE i \in hits : \A j \in hits : j <= i

\* a variant that splits at the last occurrence of the delimiter
DelimiterIndexLast(buf) == LastIndexOf(buf, DELIMITER)

\* buffer.indexOf(DELIMITER)
DelimiterIndex(buf) == IndexOf(buf, DELIMITER)

\* a variant that does not trim the segment
JsonStringUntrimmed(buf, delimiterIndex) == Substring(buf, 0, delimiterIndex)

\* buffer.substring(0, delimiterIndex).trim()
JsonString(buf, delimiterIndex) == Trim(Substring(buf, 0, delimiterIndex))

\* a variant that leaves the delimiter at the front of the buffer
AfterDelimiterKept(buf, delimiterIndex) == SubstringFrom(buf, delimiterIndex)

\* a variant that keeps the last character of the delimiter
AfterDelimiterShort(buf, delimiterIndex) ==
    SubstringFrom(buf, delimiterIndex + Len(DELIMITER) - 1)

\* a variant that drops the length of the delimiter from the front of the
\* buffer, whatever precedes the delimiter
AfterDelimiterOnly(buf, delimiterIndex) == SubstringFrom(buf, Len(DELIMITER))

\* buffer.substring(delimiterIndex + DELIMITER.length)
AfterDelimiter(buf, delimiterIndex) ==
    SubstringFrom(buf, delimiterIndex + Len(DELIMITER))

\* JSON.parse is a pure function of its text: its results on the segment
\* contents of the responses are computed once and looked up afterwards
ParsedContents == [t \in {Trim(c) : c \in Contents} |-> JSONParse(t)]

\* const question: QuizQuestion = JSON.parse(jsonString)
ParseQuestion(jsonString) ==
    IF jsonString \in DOMAIN ParsedContents THEN ParsedContents[jsonString]
    ELSE JSONParse(jsonString)

\* a variant in which the loop is an if: one segment per chunk
LoopBackIf == "pull"

\* while (...) { ... }: after an iteration the condition is tested again
LoopBack == "scan"

\* a variant in which the catch block returns from the generator
AfterCatchReturn == "done"

\* catch (e) { console.error(...) }: the loop goes on
AfterCatch == LoopBack

\* a variant that gives every segment to JSON.parse
SkipSegmentNever(jsonString) == FALSE

\* if (jsonString): the empty string is falsy and the segment is skipped
SkipSegment(jsonString) == jsonString = << >>

\* the offset in stream of the first character of the buffer
Consumed == pos - Len(buffer)

\* while (buffer.includes(DELIMITER)): the condition is false
ExitLoop ==
    /\ pc = "scan"
    /\ ~Includes(buffer, DELIMITER)
    /\ pc' = "pull"
    /\ UNCHANGED <<appVars, buffer, thrown, srcVars, histVars, cardVars,
                   earlier>>

\* one iteration of the while loop, up to its yield
ProcessSegment ==
    /\ pc = "scan"
    /\ Includes(buffer, DELIMITER)
    /\ LET delimiterIndex == DelimiterIndex(buffer)
           jsonString == JsonString(buffer, delimiterIndex)
           parsed == ParseQuestion(jsonString)
           attempt == [from  |-> Consumed,
                       to    |-> Consumed + delimiterIndex,
                       threw |-> parsed.threw]
       IN  /\ buffer' = AfterDelimiter(buffer, delimiterIndex)
           /\ IF SkipSegment(jsonString)
              THEN /\ pc' = LoopBack
                   /\ UNCHANGED histVars
              ELSE IF parsed.threw
              THEN /\ pc' = AfterCatch
                   /\ attempts' = Append(attempts, attempt)
                   /\ UNCHANGED emitted
              ELSE /\ pc' = "yield"
                   /\ attempts' = Append(attempts, attempt)
                   /\ emitted' = Append(emitted, parsed.value)
    /\ UNCHANGED <<appVars, thrown, srcVars, cardVars, earlier>>

\* a variant that tests the buffer without trimming it
FinalStringUntrimmed(buf) == buf

\* buffer.trim()
FinalString(buf) == Trim(buf)

\* the source has no more chunks: the code after the for await loop
Finalize ==
    /\ pc = "pull"
    /\ pos = Len(stream)
    /\ LET parsed == ParseQuestion(FinalString(buffer))
           attempt == [from  |-> Consumed,
                       to    |-> pos,
                       threw |-> parsed.threw]
       IN  IF FinalString(buffer) = << >>
           THEN /\ pc' = "done"
                /\ UNCHANGED histVars
           ELSE IF parsed.threw
           THEN /\ pc' = "done"
                /\ attempts' = Append(attempts, attempt)
                /\ UNCHANGED emitted
           ELSE /\ pc' = "yieldFinal"
                /\ attempts' = Append(attempts, attempt)
                /\ emitted' = Append(emitted, parsed.value)
    /\ UNCHANGED <<appVars, buffer, thrown, srcVars, cardVars, earlier>>

(***************************************************************************)
(* startQuiz: the body of its for await loop and its catch block.          *)
(***************************************************************************)
\* setQuestions(prev => [...prev, question]); the loop then resumes the
\* generator after its yield
ReceiveQuestion ==
    /\ pc \in {"yield", "yieldFinal"}
    /\ questions' = Append(questions, emitted[Len(emitted)])
    /\ pc' = IF pc = "yield" THEN LoopBack ELSE "done"
    /\ UNCHANGED <<quizState, currentQuestionIndex, score, error, isKeySet,
                   isCheckingKey, buffer, thrown, srcVars, histVars, cardVars,
                   earlier>>

\* err instanceof Error ? err.message : 'An unknown error occurred.'
ErrorMessage(err) == IF err.isError THEN err.message ELSE MsgUnknown

\* a variant that compares the whole message
IsInvalidKeyExact(errorMessage) == errorMessage = ApiKeyNotValid

\* errorMessage.includes("API key not valid")
IsInvalidKey(errorMessage) == Includes(errorMessage, ApiKeyNotValid)

\* a variant of the catch block that also empties the question list
CatchErrorReset(err) ==
    /\ IF IsInvalidKey(ErrorMessage(err))
       THEN /\ error' = MsgReselect
            /\ isKeySet' = FALSE
            /\ quizState' = "idle"
       ELSE /\ error' = ErrorMessage(err)
            /\ quizState' = "error"
            /\ UNCHANGED isKeySet
    /\ questions' = << >>
    /\ UNCHANGED <<currentQuestionIndex, score, isCheckingKey>>

\* catch (err)
CatchError(err) ==
    /\ IF IsInvalidKey(ErrorMessage(err))
       THEN /\ error' = MsgReselect
            /\ isKeySet' = FALSE
            /\ quizState' = "idle"
       ELSE /\ error' = ErrorMessage(err)
            /\ quizState' = "error"
            /\ UNCHANGED isKeySet
    /\ UNCHANGED <<questions, currentQuestionIndex, score, isCheckingKey>>

\* the QuizCard is not rendered: its state is gone, and the next QuizCard
\* starts from its useState initial values
Unmount ==
    /\ selectedOption' = NullOption
    /\ isAnswered' = FALSE

\* the source fails, when the stream is opened or when a chunk is pulled:
\* the generator throws what the source threw, and the catch block of
\* startQuiz runs.  The connection is gone: what the source had left to
\* deliver is no longer part of the state.
SourceFail ==
    /\ pc \in {"open", "pull"}
    /\ pc' = "failed"
    /\ \E err \in Failures :
          /\ thrown' = err
          /\ CatchError(err)
    /\ stream' = << >>
    /\ pos' = 0
    /\ cuts' = {0}
    /\ fine' = FALSE
    /\ Unmount
    /\ UNCHANGED <<buffer, histVars, earlier>>

\* the Back to Home button of the error view
BackToHome ==
    /\ ~isCheckingKey
    /\ isKeySet
    /\ quizState = "error"
    /\ Quiescent
    /\ quizState' = "idle"
    /\ UNCHANGED <<questions, currentQuestionIndex, score, error, isKeySet,
                   isCheckingKey, genVars, srcVars, histVars, cardVars, earlier>>

(***************************************************************************)
(* The quiz as a whole: the source streams a response of a few records.    *)
(***************************************************************************)
QuizContents == {RecordA, RecordB}

RECURSIVE QuizSegmentLists(_)
\* the lists of at most n segment contents of a quiz
QuizSegmentLists(n) ==
    IF n = 0 THEN {<< >>}
    ELSE QuizSegmentLists(n - 1) \cup
         {<<c>> \o cs : c \in QuizContents,
                        cs \in {l \in QuizSegmentLists(n - 1) : Len(l) = n - 1}}

RECURSIVE QuizCutPoints(_, _)
\* the offsets at which the source ends a chunk of Response(cs), the first
\* segment of cs starting at offset at: a chunk ends where a delimiter ends
\* or where the response ends
QuizCutPoints(cs, at) ==
    IF cs = << >> THEN {at}
    ELSE IF Len(cs) = 1 THEN {at, at + Len(cs[1])}
    ELSE {at} \cup QuizCutPoints(Tail(cs), at + Len(cs[1]) + Len(DELIMITER))

\* await ai.models.generateContentStream(...) resolves; let buffer = ''.
\* The source has chosen the response of the quiz
QuizOpenStream ==
    /\ pc = "open"
    /\ pc' = "pull"
    /\ buffer' = << >>
    /\ \E cs \in QuizSegmentLists(MaxQuizSegments) :
          /\ stream' = Response(cs)
          /\ cuts' = QuizCutPoints(cs, 0)
    /\ fine' = FALSE
    /\ UNCHANGED <<appVars, thrown, pos, histVars, cardVars, earlier>>

\* String(undefined)
Undefined == <<"u","n","d","e","f","i","n","e","d">>

\* the chunks without a text part received so far
Textless ==
    Cardinality({i \in 0..(Len(stream) - Len(Undefined)) :
                    MatchesAt(stream, Undefined, i)})

\* for await (const chunk of stream): buffer += chunk.text, for a chunk
\* that has no text part: chunk.text is undefined, and a string += undefined
\* appends the text of String(undefined).  stream keeps what the buffer has
\* been given
ReceiveChunkNoText ==
    /\ pc = "pull"
    /\ Textless < MaxTextless
    /\ buffer' = buffer \o Undefined
    /\ stream' = SubSeq(stream, 1, pos) \o Undefined
                    \o SubSeq(stream, pos + 1, Len(stream))
    /\ pos' = pos + Len(Undefined)
    /\ cuts' = {c \in cuts : c <= pos}
                  \cup {c + Len(Undefined) : c \in {d \in cuts : d >= pos}}
    /\ pc' = "scan"
    /\ UNCHANGED <<appVars, thrown, fine, histVars, cardVars, earlier>>

(***************************************************************************)
(* App: the views and their handlers.                                      *)
(***************************************************************************)
\* renderContent: case 'active' renders the QuizCard
ActiveView ==
    /\ ~isCheckingKey
    /\ isKeySet
    /\ quizState = "active"
    /\ Len(questions) # 0

\* useEffect: the 500 ms timer that is set while quizState is 'loading' and
\* a question is there, and cleared when either changes
LoadingTimer ==
    /\ Quiescent
    /\ quizState = "loading"
    /\ Len(questions) > 0
    /\ quizState' = "active"
    /\ Unmount
    /\ UNCHANGED <<questions, currentQuestionIndex, score, error, isKeySet,
                   isCheckingKey, genVars, srcVars, histVars, earlier>>

\* a variant in which the option buttons stay enabled
OptionsAlwaysEnabled == TRUE

\* disabled={isAnswered}; if (isAnswered) return
OptionsEnabled == ~isAnswered

\* QuizCard.handleOptionClick, then App.handleAnswer: the option clicked is
\* question.correctAnswer or it is not
HandleOptionClick ==
    /\ Quiescent
    /\ ActiveView
    /\ OptionsEnabled
    /\ \E isCorrect \in BOOLEAN :
          /\ selectedOption' = IF isCorrect THEN "correctAnswer" ELSE "other"
          /\ score' = IF isCorrect THEN score + 1 ELSE score
    /\ isAnswered' = TRUE
    /\ UNCHANGED <<quizState, questions, currentQuestionIndex, error, isKeySet,
                   isCheckingKey, genVars, srcVars, histVars, earlier>>

\* a variant in which the Next button is enabled from the start
NextAlwaysEnabled == TRUE

\* the Next button: disabled={!isAnswered}
NextEnabled == isAnswered

\* a variant that compares with questions.length
HasNextOffByOne == currentQuestionIndex < Len(questions)

\* currentQuestionIndex < questions.length - 1
HasNext == currentQuestionIndex < Len(questions) - 1

\* App.handleNext; the QuizCard of the next question has another key
HandleNext ==
    /\ Quiescent
    /\ ActiveView
    /\ NextEnabled
    /\ IF HasNext
       THEN /\ currentQuestionIndex' = currentQuestionIndex + 1
            /\ UNCHANGED quizState
       ELSE /\ quizState' = "finished"
            /\ UNCHANGED currentQuestionIndex
    /\ Unmount
    /\ UNCHANGED <<questions, score, error, isKeySet, isCheckingKey, genVars,
                   srcVars, histVars, earlier>>

\* the Try Another Quiz button of the finished view: onRestart={startQuiz}
RestartQuiz ==
    /\ ~isCheckingKey
    /\ isKeySet
    /\ quizState = "finished"
    /\ Quiescent
    /\ BeginRun

(***************************************************************************)
(* The generators of earlier startQuiz calls.  Each still runs its own     *)
(* for await loop, which appends to the questions of App and reports to    *)
(* the catch block of its own startQuiz call.  From one await of the       *)
(* source to the next a generator and its consumer run as one chain of     *)
(* jobs.                                                                   *)
(***************************************************************************)
RECURSIVE Drain(_)
\* the while loop: what is left in the buffer, and the records yielded
Drain(buf) ==
    IF ~Includes(buf, DELIMITER) THEN [buffer |-> buf, records |-> << >>]
    ELSE LET delimiterIndex == DelimiterIndex(buf)
             jsonString == JsonString(buf, delimiterIndex)
             rest == Drain(AfterDelimiter(buf, delimiterIndex))
         IN  IF SkipSegment(jsonString) \/ ParseQuestion(jsonString).threw
             THEN rest
             ELSE [buffer  |-> rest.buffer,
                   records |-> <<ParseQuestion(jsonString).value>>
                                  \o rest.records]

\* the earlier generators without the i-th, which has ended
Without(i) == SubSeq(earlier, 1, i - 1) \o SubSeq(earlier, i + 1, Len(earlier))

\* await ai.models.generateContentStream(...) resolves
EarlierOpen(i) ==
    /\ Quiescent
    /\ earlier[i].pc = "open"
    /\ \E cs \in QuizSegmentLists(MaxQuizSegments) :
          earlier' = [earlier EXCEPT ![i] =
                         [pc |-> "pull", buffer |-> << >>,
                          stream |-> Response(cs), pos |-> 0,
                          cuts |-> QuizCutPoints(cs, 0), fine |-> FALSE,
                          thrown |-> NoFailure]]
    /\ UNCHANGED <<appVars, genVars, srcVars, histVars, cardVars>>

\* a chunk: buffer += chunk.text, the while loop, and setQuestions for
\* every record it yields
EarlierChunk(i) ==
    /\ Quiescent
    /\ earlier[i].pc = "pull"
    /\ \E q \in earlier[i].cuts :
          /\ earlier[i].pos <= q
          /\ earlier[i].fine => q <= earlier[i].pos + 1
          /\ LET drained == Drain(earlier[i].buffer
                              \o SubSeq(earlier[i].stream, earlier[i].pos + 1, q))
             IN  /\ earlier' = [earlier EXCEPT ![i].buffer = drained.buffer,
                                                ![i].pos = q]
                 /\ questions' = questions \o drained.records
    /\ UNCHANGED <<quizState, currentQuestionIndex, score, error, isKeySet,
                   isCheckingKey, genVars, srcVars, histVars, cardVars>>

\* the source has no more chunks: the code after the for await loop
EarlierFinalize(i) ==
    /\ Quiescent
    /\ earlier[i].pc = "pull"
    /\ earlier[i].pos = Len(earlier[i].stream)
    /\ LET final == FinalString(earlier[i].buffer)
       IN  questions' =
              IF final = << >> \/ ParseQuestion(final).threw THEN questions
              ELSE Append(questions, ParseQuestion(final).value)
    /\ earlier' = Without(i)
    /\ UNCHANGED <<quizState, currentQuestionIndex, score, error, isKeySet,
                   isCheckingKey, genVars, srcVars, histVars, cardVars>>

\* the source fails: the catch block of the startQuiz call of the generator
EarlierFail(i) ==
    /\ Quiescent
    /\ InProgress(earlier[i])
    /\ \E err \in Failures :
          /\ CatchError(err)
    /\ earlier' = Without(i)
    /\ Unmount
    /\ UNCHANGED <<genVars, srcVars, histVars>>

EarlierStep ==
    \E i \in 1..Len(earlier) :
        \/ EarlierOpen(i)
        \/ EarlierChunk(i)
        \/ EarlierFinalize(i)
        \/ EarlierFail(i)

Next ==
    \/ CheckApiKey
    \/ SelectKey
    \/ StartQuiz
    \/ OpenStream
    \/ SourceFail
    \/ ReceiveChunk
    \/ ExitLoop
    \/ ProcessSegment
    \/ Finalize
    \/ ReceiveQuestion
    \/ BackToHome

Spec == Init /\ [][Next]_vars

\* the quiz as a whole: every handler of App and of the QuizCard, every
\* generator, and a source that may send chunks without text
AppNext ==
    \/ CheckApiKey
    \/ SelectKey
    \/ StartQuiz
    \/ QuizOpenStream
    \/ SourceFail
    \/ ReceiveChunk
    \/ ReceiveChunkNoText
    \/ ExitLoop
    \/ ProcessSegment
    \/ Finalize
    \/ ReceiveQuestion
    \/ BackToHome
    \/ LoadingTimer
    \/ HandleOptionClick
    \/ HandleNext
    \/ RestartQuiz
    \/ EarlierStep

AppSpec == Init /\ [][AppNext]_vars

(***************************************************************************)
(* Scheduling.  The JavaScript job queue runs every continuation that is   *)
(* ready: the generator goes on after a chunk and after a yield, and the   *)
(* for await loop of startQuiz takes every record yielded.  The source is  *)
(* taken to deliver finitely many chunks: once the stream is open it       *)
(* cannot go on for ever without delivering more text, signalling          *)
(* completion or failing.                                                  *)
(***************************************************************************)
Continue == ExitLoop \/ ProcessSegment \/ ReceiveQuestion

SourceStep == (ReceiveChunk /\ pos' > pos) \/ Finalize \/ SourceFail

Fairness == WF_vars(Continue) /\ SF_vars(SourceStep)

FairSpec == Spec /\ Fairness

(***************************************************************************)
(* Reference: the whole text split left to right at the delimiter, as      *)
(* text.split(DELIMITER) does, each segment given by its offsets.          *)
(***************************************************************************)
Occurrences(text) ==
    {i \in 0..(Len(text) - Len(DELIMITER)) : MatchesAt(text, DELIMITER, i)}

RECURSIVE SplitAt(_, _, _)
\* occ: the offsets of the occurrences of the delimiter, len: the length of
\* the text, at: the offset where the next segment starts
SplitAt(occ, len, at) ==
    LET later == {i \in occ : i >= at}
    IN  IF later = {} THEN <<[from |-> at, to |-> len]>>
        ELSE LET i == CHOOSE i \in later : \A j \in later : i <= j
             IN  <<[from |-> at, to |-> i]>> \o SplitAt(occ, len, i + Len(DELIMITER))

Split(text) == SplitAt(Occurrences(text), Len(text), 0)

SegmentText(text, seg) == Trim(Substring(text, seg.from, seg.to))

\* the segments of text that are not empty after trimming
Candidates(text) ==
    SelectSeq(Split(text), LAMBDA seg : SegmentText(text, seg) # << >>)

\* the same without the last segment of the split (the one no delimiter ends)
Delimited(text) ==
    SelectSeq(SubSeq(Split(text), 1, Len(Split(text)) - 1),
              LAMBDA seg : SegmentText(text, seg) # << >>)

\* the values of the segments segs of text that JSON.parse accepts, in order
ParsedValues(text, segs) ==
    LET good == SelectSeq(segs, LAMBDA seg : ~JSONParse(SegmentText(text, seg)).threw)
    IN  [n \in 1..Len(good) |-> JSONParse(SegmentText(text, good[n])).value]

RecordsOf(text) == ParsedValues(text, Candidates(text))

\* the generator of the current run exists and has not thrown
Live == pc \in {"pull", "scan", "yield", "yieldFinal", "done"}

\* the concatenation of the chunks received so far
Received == SubSeq(stream, 1, pos)

(***************************************************************************)
(* C1: chunk-boundary independence.  When the run has completed, the       *)
(* records emitted are those of the whole response split left to right at  *)
(* the first occurrence of the delimiter, however the source cut the       *)
(* response into chunks (one chunk, single characters, a delimiter cut in  *)
(* two, overlapping delimiters).                                           *)
(***************************************************************************)
ChunkingIndependence ==
    pc = "done" => emitted = RecordsOf(stream)

\* a response with two records and a delimiter, delivered one character per
\* chunk at most
ChunkingIndependenceWitness ==
    /\ pc = "done"
    /\ fine
    /\ Includes(stream, DELIMITER)
    /\ Len(emitted) = 2

\* overlapping delimiters: the response is the delimiter followed by its tail
OverlapWitness ==
    /\ pc = "done"
    /\ stream = DELIMITER \o DelimiterTail
    /\ Len(attempts) = 1

(***************************************************************************)
(* C2: fault isolation.  When the run has completed and exactly one of the *)
(* N non-empty segments of the response was rejected by JSON.parse while   *)
(* the other N-1 are quiz questions, every segment was attempted and       *)
(* exactly the N-1 questions were emitted, in order; and while a run is in *)
(* progress a rejected segment leaves the consumer without an error.       *)
(***************************************************************************)
Malformed(text) ==
    SelectSeq(Candidates(text), LAMBDA seg : JSONParse(SegmentText(text, seg)).threw)

WellFormed(text) ==
    SelectSeq(Candidates(text), LAMBDA seg : ~JSONParse(SegmentText(text, seg)).threw)

FaultIsolation ==
    /\ pc = "done" =>
          LET good == WellFormed(stream)
          IN  (/\ Len(Malformed(stream)) = 1
               /\ \A n \in 1..Len(good) :
                     IsQuizQuestion(JSONParse(SegmentText(stream, good[n])).value))
              => /\ Len(attempts) = Len(good) + 1
                 /\ Len(emitted) = Len(good)
                 /\ \A n \in 1..Len(good) :
                       emitted[n] = JSONParse(SegmentText(stream, good[n])).value
    /\ (Live /\ \E n \in 1..Len(attempts) : attempts[n].threw) =>
          /\ thrown = NoFailure
          /\ error = NullError
          /\ quizState # "error"

\* the malformed segment is the middle one of three
FaultIsolationWitness ==
    /\ pc = "done"
    /\ stream = Response(<<RecordA, Truncated, RecordB>>)
    /\ Len(emitted) = 2
    /\ questions = emitted

\* the malformed segment is the first one, and the last one
FaultIsolationFirstWitness ==
    /\ pc = "done"
    /\ stream = Response(<<Truncated, RecordA, RecordB>>)
    /\ Len(emitted) = 2

FaultIsolationLastWitness ==
    /\ pc = "done"
    /\ stream = Response(<<RecordA, RecordB, Truncated>>)
    /\ Len(emitted) = 2

(***************************************************************************)
(* C3: order preservation and single parsing.  The segments handed to      *)
(* JSON.parse lie one after the other in the response, each separated from *)
(* the next by at least a delimiter, so no character belongs to two of     *)
(* them; and the records emitted are the values of the accepted ones, in   *)
(* that order.                                                             *)
(***************************************************************************)
OrderAndSingleParsing ==
    Live =>
       /\ \A n \in 1..Len(attempts) :
             /\ 0 <= attempts[n].from
             /\ attempts[n].from <= attempts[n].to
             /\ attempts[n].to <= pos
       /\ \A n \in 1..(Len(attempts) - 1) :
             attempts[n].to + Len(DELIMITER) <= attempts[n + 1].from
       /\ pc \in {"yield", "yieldFinal", "done"} =>
             /\ emitted = ParsedValues(stream, attempts)
             /\ \A n \in 1..Len(attempts) :
                   attempts[n].threw = JSONParse(SegmentText(stream, attempts[n])).threw

\* two different records, emitted in the order of the response
OrderAndSingleParsingWitness ==
    /\ pc = "done"
    /\ stream = Response(<<RecordB, RecordA>>)
    /\ emitted = <<JSONParse(RecordB).value, JSONParse(RecordA).value>>
    /\ emitted[1] # emitted[2]

(***************************************************************************)
(* C4: a failure of the source is terminal.  The step in which the source  *)
(* fails (at the opening of the stream or at a pull) finds every record    *)
(* emitted so far in the question list, emits nothing, makes no parse      *)
(* attempt on the remaining buffer, leaves the question list as it is and  *)
(* hands the failure to the consumer, which leaves 'loading' with an error *)
(* message; after it, until startQuiz runs again, no record is emitted and *)
(* the question list stays.                                                *)
(***************************************************************************)
FailureIsTerminal ==
    [][/\ (pc # "failed" /\ pc' = "failed") =>
             /\ pc \in {"open", "pull"}
             /\ thrown' \in Failures
             /\ questions = emitted
             /\ questions' = questions
             /\ emitted' = emitted
             /\ attempts' = attempts
             /\ buffer' = buffer
             /\ quizState' \in {"idle", "error"}
             /\ error' # NullError
       /\ (pc = "failed" /\ pc' # "open") =>
             /\ pc' = "failed"
             /\ questions' = questions
             /\ emitted' = emitted
             /\ attempts' = attempts
             /\ buffer' = buffer
      ]_vars

\* the source failed after a record was emitted, with text left in the buffer
FailureIsTerminalWitness ==
    /\ pc = "failed"
    /\ quizState = "error"
    /\ Len(questions) >= 1
    /\ questions = emitted
    /\ Trim(buffer) # << >>
    /\ \A n \in 1..Len(attempts) : ~attempts[n].threw

(***************************************************************************)
(* C5: finalization.  When the source has signalled completion, the text   *)
(* after the last delimiter of the response was, if it is not empty after  *)
(* trimming, the one last candidate: one parse attempt on the whole of it, *)
(* its value emitted after the records of the delimited segments if it     *)
(* parses and nothing emitted for it if not; if it is empty after          *)
(* trimming, no attempt was made on it.  'Malformed, DELIMITER, record'    *)
(* emits the one record.                                                   *)
(***************************************************************************)
Finalization ==
    pc \in {"yieldFinal", "done"} =>
       LET last == Split(stream)[Len(Split(stream))]
           text == SegmentText(stream, last)
           finals == {n \in 1..Len(attempts) : attempts[n].to > last.from}
           before == ParsedValues(stream, Delimited(stream))
       IN  /\ text = << >> =>
                 /\ finals = {}
                 /\ emitted = before
           /\ text # << >> =>
                 /\ finals = {Len(attempts)}
                 /\ attempts[Len(attempts)] =
                       [from |-> last.from, to |-> Len(stream),
                        threw |-> JSONParse(text).threw]
                 /\ emitted = IF JSONParse(text).threw THEN before
                              ELSE Append(before, JSONParse(text).value)
           /\ (pc = "done" /\ stream = Response(<<Truncated, RecordB>>)) =>
                 emitted = <<JSONParse(RecordB).value>>

\* malformed text, a delimiter, a record and no trailing delimiter
FinalizationWitness ==
    /\ pc = "done"
    /\ stream = Response(<<Truncated, RecordB>>)
    /\ emitted = <<JSONParse(RecordB).value>>
    /\ questions = emitted
    /\ Len(attempts) = 2
    /\ attempts[2].to = Len(stream)

\* the response ends with whitespace only: nothing is attempted on it
FinalizationBlankWitness ==
    /\ pc = "done"
    /\ stream = Response(<<RecordA, Blank>>)
    /\ Len(attempts) = 1

(***************************************************************************)
(* C6 as stated: at completion the number of parse attempts is the number  *)
(* k of delimiter-terminated segments, plus one if the trailing content is *)
(* not empty after trimming.                                               *)
(***************************************************************************)
AttemptPerDelimitedSegment ==
    pc = "done" =>
       LET segs == Split(stream)
       IN  Len(attempts) =
              (Len(segs) - 1)
              + (IF SegmentText(stream, segs[Len(segs)]) # << >> THEN 1 ELSE 0)

(***************************************************************************)
(* C6 amended: at completion the parse attempts are, one each and in       *)
(* order, the delimiter-terminated segments that are not empty after       *)
(* trimming, plus the trailing content if it is not empty after trimming;  *)
(* and whenever the parser waits for a chunk, the attempts made are those  *)
(* for the non-empty delimiter-terminated segments received so far.        *)
(***************************************************************************)
ParseAttemptCount ==
    /\ pc = "done" =>
          /\ Len(attempts) = Len(Candidates(stream))
          /\ \A n \in 1..Len(attempts) :
                /\ attempts[n].from = Candidates(stream)[n].from
                /\ attempts[n].to = Candidates(stream)[n].to
    /\ pc = "pull" => Len(attempts) = Len(Delimited(Received))

\* a response with a delimiter-terminated segment that is empty after trimming
ParseAttemptCountWitness ==
    /\ pc = "done"
    /\ Len(Split(stream)) - 1 > Len(Delimited(stream))
    /\ Len(attempts) = 2
    /\ attempts[2].to = Len(stream)

(***************************************************************************)
(* C7 as stated: every record emitted has the required fields question,    *)
(* options, correctAnswer and explanation with the QuizQuestion shape.     *)
(***************************************************************************)
EmittedAreQuizQuestions ==
    \A n \in 1..Len(emitted) : IsQuizQuestion(emitted[n])

(***************************************************************************)
(* C8: the buffer invariant.  While the generator runs, the buffer is the  *)
(* text received so far from the end of one of its delimiters on (from the *)
(* start if none is consumed); whenever the parser waits for a chunk or    *)
(* has finished, that delimiter is the last one of the text received, so   *)
(* the buffer is exactly the unconsumed rest, and it is empty at the end   *)
(* of a response that ends with a delimiter.                               *)
(***************************************************************************)
BufferInvariant ==
    Live =>
       LET segs == Split(Received)
       IN  /\ \E m \in 1..Len(segs) : buffer = SubstringFrom(Received, segs[m].from)
           /\ pc \in {"pull", "yieldFinal", "done"} =>
                 buffer = SubstringFrom(Received, segs[Len(segs)].from)
           /\ (pc = "done" /\ segs[Len(segs)].from = Len(stream)) => buffer = << >>

\* two records, each followed by a delimiter: the buffer is empty at the end
BufferInvariantWitness ==
    /\ pc = "done"
    /\ stream = Response(<<RecordA, RecordB, << >> >>)
    /\ Len(emitted) = 2
    /\ buffer = << >>

(***************************************************************************)
(* C9: incremental emission.  Whenever the parser requests the next chunk, *)
(* the buffer holds no delimiter and the records of all delimiter-         *)
(* terminated segments received so far have been emitted and are in the    *)
(* question list; records reach the consumer one at a time, in order.      *)
(***************************************************************************)
IncrementalEmission ==
    /\ pc = "pull" =>
          /\ ~Includes(buffer, DELIMITER)
          /\ emitted = ParsedValues(Received, Delimited(Received))
          /\ questions = emitted
    /\ Live =>
          /\ questions = SubSeq(emitted, 1, Len(questions))
          /\ Len(emitted) - Len(questions) =
                IF pc \in {"yield", "yieldFinal"} THEN 1 ELSE 0

\* a record is in the question list while the source has more to deliver
IncrementalEmissionWitness ==
    /\ pc = "pull"
    /\ Len(questions) = 1
    /\ pos < Len(stream)
    /\ Len(RecordsOf(stream)) = 2

(***************************************************************************)
(* C10: termination.  Under the scheduling above every run whose stream    *)
(* has been opened ends: the record sequence completes normally unless the *)
(* source fails; every                                                     *)
(* iteration of the delimiter loop shortens the buffer by at least the     *)
(* delimiter; and an empty response completes with no record, no parse     *)
(* attempt and no error.                                                   *)
(***************************************************************************)
Termination ==
    /\ (pc = "pull") ~> (pc = "done" \/ pc = "failed")
    /\ [][(pc = "scan" /\ Includes(buffer, DELIMITER)) =>
             Len(buffer') + Len(DELIMITER) <= Len(buffer)]_vars
    /\ []((pc = "done" /\ stream = << >>) =>
             /\ emitted = << >>
             /\ attempts = << >>
             /\ questions = << >>
             /\ thrown = NoFailure
             /\ error = NullError)

\* a run over a response of three segments has completed
TerminationWitness ==
    /\ pc = "done"
    /\ Len(Split(stream)) = 3
    /\ Len(emitted) = 3

\* the empty response has completed
TerminationEmptyWitness ==
    /\ pc = "done"
    /\ stream = << >>
    /\ emitted = << >>
    /\ error = NullError

(***************************************************************************)
(* C11: error classification.  When the running generator fails with an    *)
(* Error whose message contains 'API key not valid', App shows the key     *)
(* setup with the message that asks for a new key: isKeySet is false,      *)
(* quizState is 'idle' and not 'error'.  Any other failure sets quizState  *)
(* to 'error' with the message of the error (the fixed message for a value *)
(* that is no Error).  The error view offers Back to Home, which leads to  *)
(* 'idle', and the idle view offers Start Quiz.                            *)
(***************************************************************************)
ErrorView == ~isCheckingKey /\ isKeySet /\ quizState = "error"

IdleView == ~isCheckingKey /\ isKeySet /\ quizState = "idle"

ErrorClassification ==
    /\ [][(pc # "failed" /\ pc' = "failed") =>
             IF thrown'.isError /\ Includes(thrown'.message, ApiKeyNotValid)
             THEN /\ isKeySet' = FALSE
                  /\ quizState' = "idle"
                  /\ error' = MsgReselect
             ELSE /\ quizState' = "error"
                  /\ error' = IF thrown'.isError THEN thrown'.message
                              ELSE MsgUnknown
                  /\ isKeySet' = isKeySet]_vars
    /\ []((ErrorView /\ Quiescent) => ENABLED BackToHome)
    /\ [][(ErrorView /\ BackToHome) => quizState' = "idle"]_vars
    /\ []((IdleView /\ Quiescent) => ENABLED StartQuiz)

\* a run has failed for the key after a question had arrived: the key setup
\* is shown
ErrorClassificationWitness ==
    /\ pc = "failed"
    /\ thrown.message = MsgInvalidKey
    /\ ~isKeySet
    /\ quizState = "idle"
    /\ Len(questions) > 0

\* a run has failed with a value that is no Error: the error view is shown
ErrorClassificationOtherWitness ==
    /\ pc = "failed"
    /\ ~thrown.isError
    /\ ErrorView
    /\ error = MsgUnknown

(***************************************************************************)
(* C12: display order matches emission order.  Whenever no generator is in *)
(* the middle of a job, the questions of App are exactly the records that  *)
(* the generator of the most recent startQuiz has yielded so far, in the   *)
(* order in which it yielded them.                                         *)
(***************************************************************************)
DisplayMatchesEmission == Quiescent => questions = emitted

(***************************************************************************)
(* C13: the consumer handles every way a run can end.  Once every          *)
(* generator has ended, a quiz that is still in 'loading' is about to      *)
(* leave it: the timer that makes it 'active' is pending.                  *)
(***************************************************************************)
AllEnded == pc \in {"done", "failed"} /\ earlier = << >>

LeavesLoading == (AllEnded /\ quizState = "loading") => ENABLED LoadingTimer

(***************************************************************************)
(* C14: empty segments.  Whenever the parser waits for a chunk or has      *)
(* completed, a delimiter-terminated segment received so far that is empty *)
(* after trimming has caused no parse attempt, so no record and no logged  *)
(* parse failure, and no error; and every delimiter-terminated segment     *)
(* that is not empty after trimming, also after an empty one, has been     *)
(* given to JSON.parse.                                                    *)
(***************************************************************************)
EmptySegmentSkipped ==
    (pc \in {"pull", "done"}) =>
        LET segs == Split(Received)
        IN  /\ \A n \in 1..(Len(segs) - 1) :
                  IF SegmentText(Received, segs[n]) = << >>
                  THEN /\ \A a \in 1..Len(attempts) :
                             attempts[a].from # segs[n].from
                       /\ thrown = NoFailure
                       /\ error = NullError
                  ELSE \E a \in 1..Len(attempts) :
                          /\ attempts[a].from = segs[n].from
                          /\ attempts[a].to = segs[n].to
            /\ \A a \in 1..Len(attempts) :
                  Trim(Substring(stream, attempts[a].from, attempts[a].to)) # << >>
            /\ Len(emitted) <= Len(attempts)

\* a response that starts with a delimiter, goes on with white space and a
\* delimiter, and ends with a record, which has been emitted
EmptySegmentSkippedWitness ==
    /\ pc = "done"
    /\ Len(Split(stream)) = 3
    /\ Split(stream)[1].to = 0
    /\ Split(stream)[2].to > Split(stream)[2].from
    /\ SegmentText(stream, Split(stream)[2]) = << >>
    /\ Len(attempts) = 1
    /\ Len(emitted) = 1

\* two consecutive delimiters between two records, both emitted
EmptySegmentBetweenWitness ==
    /\ pc = "done"
    /\ Len(Split(stream)) = 3
    /\ Split(stream)[2].to = Split(stream)[2].from
    /\ Len(emitted) = 2

(***************************************************************************)
(* C15: an empty chunk is a no-op.  A step that receives a chunk without   *)
(* text, a chunk whose text is the empty string or a chunk that has no     *)
(* text part, leaves the buffer as it was and emits nothing, and the       *)
(* parser goes on to test its buffer for the delimiter.                    *)
(***************************************************************************)
EmptyChunk == (ReceiveChunk /\ pos' = pos) \/ ReceiveChunkNoText

EmptyChunkIsNoOp ==
    [][EmptyChunk => /\ buffer' = buffer
                     /\ emitted' = emitted
                     /\ pc' = "scan"]_vars

\* the part of C15 that the code meets: a chunk whose text is the empty
\* string is a no-op
EmptyStringChunkIsNoOp ==
    [][(ReceiveChunk /\ pos' = pos) => /\ buffer' = buffer
                                       /\ emitted' = emitted
                                       /\ pc' = "scan"]_vars

(***************************************************************************)
(* C16: at most one stream run at a time.  startQuiz, from the Start Quiz  *)
(* button or from the Try Another Quiz button, is only called when the     *)
(* generator of every earlier call has completed or failed, so that there  *)
(* is never an earlier generator left to deliver a record or a failure.    *)
(***************************************************************************)
OneRunAtATime ==
    /\ [][(StartQuiz \/ RestartQuiz) =>
             (~InProgress(ThisRun) /\ earlier = << >>)]_vars
    /\ [](earlier = << >>)

(***************************************************************************)
(* C17: index in bounds.  In every reachable state with quizState          *)
(* 'active', questions is not empty and currentQuestionIndex is the index  *)
(* of one of its elements (0 <= currentQuestionIndex < questions.length).  *)
(***************************************************************************)
IndexInBounds ==
    quizState = "active" =>
        /\ Len(questions) > 0
        /\ 0 <= currentQuestionIndex
        /\ currentQuestionIndex < Len(questions)

\* the second question of a quiz is shown while an earlier generator is
\* still running
IndexInBoundsWitness ==
    /\ ActiveView
    /\ currentQuestionIndex = 1
    /\ Len(questions) = 2
    /\ earlier # << >>

\* the last question loaded is shown and answered while the generator still
\* awaits a chunk
IndexInBoundsFailedWitness ==
    /\ quizState = "active"
    /\ currentQuestionIndex = Len(questions) - 1
    /\ isAnswered
    /\ pc = "pull"
    /\ Len(questions) = 1

(***************************************************************************)
(* C18: score bound.  In every reachable state 0 <= score <=               *)
(* questions.length and score <= currentQuestionIndex + 1; while a         *)
(* question is shown, score is at most the number of questions answered;   *)
(* a step adds at most 1 to score, and only the first answer to the        *)
(* question shown adds to it; startQuiz resets score to 0.                 *)
(***************************************************************************)
ScoreBound ==
    /\ [](/\ 0 <= score
          /\ score <= Len(questions)
          /\ score <= currentQuestionIndex + 1
          /\ (quizState = "active" =>
                score <= currentQuestionIndex + (IF isAnswered THEN 1 ELSE 0)))
    /\ [][score' # score =>
             \/ (/\ score' = score + 1
                 /\ ~isAnswered
                 /\ isAnswered'
                 /\ currentQuestionIndex' = currentQuestionIndex)
             \/ (score' = 0 /\ quizState' = "loading")]_vars
    /\ [][(StartQuiz \/ RestartQuiz) => score' = 0]_vars

\* both questions of a quiz have been answered correctly
ScoreBoundWitness ==
    /\ quizState = "finished"
    /\ score = 2
    /\ Len(questions) = 2

(***************************************************************************)
(* C19: answer, then advance.  currentQuestionIndex grows and the quiz     *)
(* becomes 'finished' only when the question shown has been answered; and  *)
(* an answered question stays answered, with the same selected option and  *)
(* the same score, for as long as it is shown: onAnswer is called once for *)
(* it at most.                                                             *)
(***************************************************************************)
AnswerThenAdvance ==
    /\ [][(\/ currentQuestionIndex' > currentQuestionIndex
           \/ (quizState # "finished" /\ quizState' = "finished"))
             => (ActiveView /\ isAnswered)]_vars
    /\ [][(/\ quizState = "active" /\ isAnswered
           /\ quizState' = "active"
           /\ currentQuestionIndex' = currentQuestionIndex)
             => /\ isAnswered'
                /\ selectedOption' = selectedOption
                /\ score' = score]_vars
    /\ [][HandleOptionClick => (~isAnswered /\ selectedOption = NullOption)]_vars

\* the first question was answered wrongly, the second is shown unanswered
AnswerThenAdvanceWitness ==
    /\ ActiveView
    /\ currentQuestionIndex = 1
    /\ score = 0
    /\ ~isAnswered

=============================================================================
